---- MODULE Spec2Model ----
(***************************************************************************)
(* Copy-on-write shared pointer (COWPtr) and the groupUniqArray aggregate  *)
(* functions (fixed-width and generic, plain and non-plain).               *)
(*                                                                         *)
(* The specifications of the module:                                       *)
(*   SpecCow     sequential use of COWPtr handles                          *)
(*   SpecRace    two threads running mutate() on their own handles         *)
(*   SpecAgg     aggregate states built by add and merge                   *)
(*   SpecOut     one state fed a column and written by insertResultInto    *)
(*   SpecSer     serialize, and deserialize of whole or truncated input    *)
(*   SpecLife    two places built by add, merge and deserialize, destroyed *)
(*   SpecDes     deserialize of received element lists with repeats        *)
(*   SpecPair    the plain and the non-plain function side by side         *)
(*   SpecNoArena the generic function called with arena = nullptr          *)
(***************************************************************************)
EXTENDS Integers, Sequences, FiniteSets, TLC

\* ------------------------------------------------------------------ bounds
NumHandles == 3      \* handle variables in scope at once (SpecCow)
MaxVal     == 1      \* object payloads are 0..MaxVal
MaxRounds  == 2      \* mutate/modify/assign rounds per thread (SpecRace)

Handles == 1..NumHandles
Objects == 1..NumHandles   \* heap slots: one per handle is always enough
Vals    == 0..MaxVal
Threads == {1, 2}

VARIABLES
    \* COWPtr heap, shared by SpecCow and SpecRace
    refcount,   \* intrusive_ref_counter of every heap slot
    alive,      \* the slot holds a constructed object
    value,      \* the object's payload
    \* SpecCow
    handle,     \* handle variable -> [kind, obj]
    last,       \* the last operation performed
    \* SpecRace
    pc,         \* thread -> position in x = mutate-modify-assign
    xptr,       \* thread -> object its immutable handle x references
    mptr,       \* thread -> object its MutablePtr temporary references (0: none)
    shared,     \* thread -> what use_count() > 1 evaluated to
    wrote,      \* thread -> payload it last wrote through its MutablePtr
    rounds,     \* thread -> completed rounds
    inplace,    \* threads that took the original object for in-place modification
    origin,     \* the object both threads share at the start (0 once deleted)
    \* SpecAgg, SpecOut, SpecSer: groupUniqArray
    mode,       \* "fixed", "plain" or "nonplain": the aggregate function in use
    set,        \* place -> the hash set's cells, in iteration order
    arena,      \* place -> the bytes of the place's Arena
    seen,       \* place -> the logical values given to the place so far
    buf,        \* the WriteBuffer / ReadBuffer of serialize and deserialize
    bufOf,      \* the values the state that buf was serialized from finalizes to
    offsets_to, \* the result ColumnArray's offsets
    data_to,    \* the result ColumnArray's flat values
    lastA,      \* the last aggregate operation performed
    \* SpecPair: the non-plain function run side by side with the plain one
    twin        \* the sets and arenas of the non-plain function's places

heapVars == <<refcount, alive, value>>
cowVars  == <<handle, last>>
raceVars == <<pc, xptr, mptr, shared, wrote, rounds, inplace, origin>>
aggVars  == <<mode, set, arena, seen, buf, bufOf, offsets_to, data_to, lastA>>
vars     == <<refcount, alive, value, handle, last,
              pc, xptr, mptr, shared, wrote, rounds, inplace, origin,
              mode, set, arena, seen, buf, bufOf, offsets_to, data_to, lastA, twin>>
pairVars == <<twin>>
notCow   == <<raceVars, aggVars, pairVars>>
notRace  == <<cowVars, aggVars, pairVars>>
notAgg   == <<heapVars, cowVars, raceVars, pairVars>>
notPair  == <<heapVars, cowVars, raceVars>>

\* ------------------------------------------------------------ groupUniqArray
NumPlaces == 3       \* aggregate states (places) of SpecAgg
MaxResults == 2      \* rows of the result column (SpecOut)
MaxArena   == 3      \* deserialize is given a place with at most this many arena bytes
MaxList    == 3      \* elements of a serialized state received from elsewhere

Places == 1..NumPlaces
Modes  == {"fixed", "plain", "nonplain"}

\* The argument column, one per mode. Rows 1 and 3 hold equal values.
ColNum == <<1, 256, 1, 257>>                     \* ColumnVector<UInt16>::getData()
ColStr == << <<1>>, <<2, 3>>, <<1>>, <<2>> >>    \* the rows of a string column
Rows   == 1..4
MergeRows == 1..3                                \* the rows SpecAgg adds

\* the value of row r as the result column holds it
Logical(m, r) == IF m = "fixed" THEN ColNum[r] ELSE ColStr[r]
AllLogical(m) == {Logical(m, r) : r \in Rows}

\* the string column's contiguous buffer: every row's bytes, then a zero byte
RECURSIVE CharsUpTo(_)
CharsUpTo(n) == IF n = 0 THEN <<>> ELSE CharsUpTo(n - 1) \o ColStr[n] \o <<0>>
ColumnChars == CharsUpTo(4)

\* A StringRef: seg 0 is the column's buffer, seg p is the Arena of place p;
\* the bytes are those at offsets off+1 .. off+size of the segment.
Ref(seg, off, size) == [seg |-> seg, off |-> off, size |-> size]

\* a state of all places: W.set[p] the cells, W.arena[p] the arena's bytes,
\* W.log the calls made on an Arena since the running function was entered
World(s, a) == [set |-> s, arena |-> a, log |-> <<>>]

\* a call on an Arena
ArenaCall(op, size) == [op |-> op, size |-> size]

SegBytes(W, seg) == IF seg = 0 THEN ColumnChars ELSE W.arena[seg]

\* the byte at position i of a segment (-1 past the bytes in use)
ByteAt(b, i) == IF i \in 1..Len(b) THEN b[i] ELSE -1

\* the bytes a StringRef designates
BytesAt(W, ref) ==
    LET b == SegBytes(W, ref.seg) IN
    [i \in 1..ref.size |-> ByteAt(b, ref.off + i)]

\* IColumn::getDataAt(row): a view of the row's bytes in the column's buffer
GetDataAt(r) == Ref(0, Len(CharsUpTo(r - 1)), Len(ColStr[r]))

\* IColumn::serializeValueIntoArena: the size (with the zero byte), the bytes
SerializedValue(r) == <<Len(ColStr[r]) + 1>> \o ColStr[r] \o <<0>>

\* IColumn::deserializeAndInsertFromArena(pos): the value that starts at pos
DecodeAt(W, ref) ==
    LET b == SegBytes(W, ref.seg)
        n == ByteAt(b, ref.off + 1) - 1 IN
    [i \in 1..n |-> ByteAt(b, ref.off + 1 + i)]

\* Arena::insert(data, size): the bytes are appended, the copy's address returned
ArenaInsert(W, p, bytes) ==
    [W  |-> [W EXCEPT !.arena[p] = @ \o bytes,
                      !.log = Append(@, ArenaCall("insert", Len(bytes)))],
     at |-> Ref(p, Len(W.arena[p]), Len(bytes))]

\* Arena::rollback(size): the last size bytes are given back
ArenaRollback(W, p, size) ==
    [W EXCEPT !.arena[p] = SubSeq(@, 1, Len(@) - size),
              !.log = Append(@, ArenaCall("rollback", size))]

\* StringRef operator== for generic cells, operator== of T for fixed ones
KeyEq(W, m, a, b) ==
    IF m = "fixed" THEN a = b
    ELSE a.size = b.size /\ BytesAt(W, a) = BytesAt(W, b)

\* HashTable::find: the index of the cell holding an equal key, or 0
FindCell(W, m, p, key) ==
    LET hits == {i \in 1..Len(W.set[p]) : KeyEq(W, m, W.set[p][i], key)} IN
    IF hits = {} THEN 0 ELSE CHOOSE i \in hits : \A j \in hits : i <= j

\* HashTable::emplace(key, it, inserted): a new cell holding key unless an
\* equal key is present; it is the index of the cell
Emplace(W, m, p, key) ==
    LET i == FindCell(W, m, p, key) IN
    IF i # 0 THEN [W |-> W, it |-> i, inserted |-> FALSE]
    ELSE [W |-> [W EXCEPT !.set[p] = Append(@, key)],
          it |-> Len(W.set[p]) + 1, inserted |-> TRUE]

\* it->data = ptr: the cell keeps its size and points at ptr
SetCellData_Keep(W, p, it, at) == W
SetCellData(W, p, it, at) ==
    [W EXCEPT !.set[p][it] = Ref(at.seg, at.off, @.size)]

\* ---- AggregateFunctionGroupUniqArray<T> (fixed width)

\* addImpl: value.insert(column.getData()[row_num])
FixedAddImpl(W, p, r) == Emplace(W, "fixed", p, ColNum[r]).W

\* merge: value.merge(rhs.value), an insert of every element of rhs
RECURSIVE FixedMergeFrom(_, _, _, _)
FixedMergeFrom(W, p, q, i) ==
    IF i > Len(W.set[q]) THEN W
    ELSE FixedMergeFrom(Emplace(W, "fixed", p, W.set[q][i]).W, p, q, i + 1)

FixedMerge(W, p, q) == FixedMergeFrom(W, p, q, 1)

\* ---- AggreagteFunctionGroupUniqArrayGeneric<is_plain_column>

\* getSerialization: the candidate key, and the arena after producing it
GetSerialization(W, plain, p, r) ==
    IF plain THEN [W |-> W, str |-> GetDataAt(r)]
    ELSE LET a == ArenaInsert(W, p, SerializedValue(r)) IN [W |-> a.W, str |-> a.at]

\* addImpl line 183: the speculative bytes are given back for a duplicate
ShouldRollback_Inverted(inserted) == inserted
ShouldRollback(inserted) == ~inserted

\* addImpl line 184: the size given to arena->rollback
RollbackSize_None(str) == 0
RollbackSize_Short(str) == str.size - 1
RollbackSize(str) == str.size

\* addImpl line 189: the bytes copied into the arena for a new key
PlainCopySize_Short(str) == str.size - 1
PlainCopySize(str) == str.size

\* addImpl
GenericAddImpl(W, plain, p, r) ==
    LET s == GetSerialization(W, plain, p, r)
        e == Emplace(s.W, IF plain THEN "plain" ELSE "nonplain", p, s.str) IN
    IF ~plain
    THEN IF ShouldRollback(e.inserted) THEN ArenaRollback(e.W, p, RollbackSize(s.str)) ELSE e.W
    ELSE IF e.inserted
         THEN LET a == ArenaInsert(e.W, p,
                           SubSeq(BytesAt(e.W, s.str), 1, PlainCopySize(s.str))) IN
              SetCellData(a.W, p, e.it, a.at)
         ELSE e.W

\* merge line 200: the elements of rhs_set the loop visits
MergeFirst_SkipOne(W, q) == 2
MergeFirst(W, q) == 1

\* merge line 204: it->data = ..., it being the cell emplace gave in cur_set
\* for the element i of rhs_set
MergeRepoint_Rhs(W, p, q, it, i, at) == SetCellData(W, q, i, at)
MergeRepoint(W, p, q, it, i, at) == SetCellData(W, p, it, at)

\* merge: every element of rhs is emplaced, a new one is copied into arena
RECURSIVE GenericMergeFrom(_, _, _, _, _)
GenericMergeFrom(W, m, p, q, i) ==
    IF i > Len(W.set[q]) THEN W
    ELSE LET e == Emplace(W, m, p, W.set[q][i])
             c == e.W.set[p][e.it] IN
         GenericMergeFrom(
             IF e.inserted
             THEN LET a == ArenaInsert(e.W, p, BytesAt(e.W, c)) IN
                  MergeRepoint(a.W, p, q, e.it, i, a.at)
             ELSE e.W,
             m, p, q, i + 1)

GenericMerge(W, m, p, q) == GenericMergeFrom(W, m, p, q, MergeFirst(W, q))

\* the aggregate function selected by mode
AddOp(W, m, p, r) ==
    IF m = "fixed" THEN FixedAddImpl(W, p, r) ELSE GenericAddImpl(W, m = "plain", p, r)

MergeOp(W, m, p, q) ==
    IF m = "fixed" THEN FixedMerge(W, p, q) ELSE GenericMerge(W, m, p, q)

\* ---- serialized form (WriteHelpers.h / ReadHelpers.h / VarInt.h)

\* writeVarUInt: base-128, low group first, the high bit marks a continuation
RECURSIVE WriteVarUInt(_)
WriteVarUInt(x) ==
    IF x > 127 THEN <<(x % 128) + 128>> \o WriteVarUInt(x \div 128) ELSE <<x>>

\* readVarUInt from position pos of b, at most 9 bytes; a read at the end of
\* the buffer throws
RECURSIVE ReadVarUIntFrom(_, _, _, _, _)
ReadVarUIntFrom(b, pos, i, scale, acc) ==
    IF i = 9 THEN [ok |-> TRUE, val |-> acc, pos |-> pos]
    ELSE IF pos > Len(b) THEN [ok |-> FALSE, val |-> acc, pos |-> pos]
    ELSE LET x == acc + (b[pos] % 128) * scale IN
         IF b[pos] < 128 THEN [ok |-> TRUE, val |-> x, pos |-> pos + 1]
         ELSE ReadVarUIntFrom(b, pos + 1, i + 1, scale * 128, x)

ReadVarUInt(b, pos) == ReadVarUIntFrom(b, pos, 0, 1, 0)

\* writeIntBinary of a UInt16: its two bytes, low byte first
WriteIntBinary(x) == <<x % 256, x \div 256>>
ElemWidth == Len(WriteIntBinary(0))

\* readIntBinary (readStrict of sizeof(T) bytes): throws on a short read
ReadIntBinary(b, pos) ==
    IF pos + ElemWidth - 1 > Len(b) THEN [ok |-> FALSE, val |-> 0, pos |-> pos]
    ELSE [ok |-> TRUE, val |-> b[pos] + 256 * b[pos + 1], pos |-> pos + ElemWidth]

\* writeStringBinary: the length as a VarUInt, then the bytes
WriteStringBinary(bytes) == WriteVarUInt(Len(bytes)) \o bytes

\* readStringBinaryInto(arena, buf): the length, arena.alloc(length), then
\* readStrict into the allocation, which throws on a short read
ReadStringBinaryInto(W, p, b, pos) ==
    LET n == ReadVarUInt(b, pos) IN
    IF ~n.ok THEN [ok |-> FALSE, W |-> W, str |-> Ref(p, 0, 0), pos |-> n.pos]
    ELSE LET a == ArenaInsert(W, p, [i \in 1..n.val |-> ByteAt(b, n.pos + i - 1)]) IN
         [ok |-> n.pos + n.val - 1 <= Len(b), W |-> a.W, str |-> a.at,
          pos |-> n.pos + n.val]

\* serialize line 75 / line 154: one element of the set
SerializeElem_NoLength(W, m, cell) ==
    IF m = "fixed" THEN WriteIntBinary(cell) ELSE BytesAt(W, cell)
SerializeElem(W, m, cell) ==
    IF m = "fixed" THEN WriteIntBinary(cell) ELSE WriteStringBinary(BytesAt(W, cell))

RECURSIVE SerializeElems(_, _, _, _)
SerializeElems(W, m, p, i) ==
    IF i > Len(W.set[p]) THEN <<>>
    ELSE SerializeElem(W, m, W.set[p][i]) \o SerializeElems(W, m, p, i + 1)

\* serialize: the number of elements, then every element
SerializeOp(W, m, p) == WriteVarUInt(Len(W.set[p])) \o SerializeElems(W, m, p, 1)

\* HashTable::read: the count, then count elements, each inserted
RECURSIVE FixedReadLoop(_, _, _, _, _, _)
FixedReadLoop(W, p, b, pos, i, size) ==
    IF i >= size THEN [W |-> W, ok |-> TRUE]
    ELSE LET x == ReadIntBinary(b, pos) IN
         IF ~x.ok THEN [W |-> W, ok |-> FALSE]
         ELSE FixedReadLoop(Emplace(W, "fixed", p, x.val).W, p, b, x.pos, i + 1, size)

\* deserialize (fixed width): value.read(buf)
FixedDeserialize(W, p, b) ==
    LET c == ReadVarUInt(b, 1) IN
    IF ~c.ok THEN [W |-> W, ok |-> FALSE]
    ELSE FixedReadLoop(W, p, b, c.pos, 0, c.val)

\* deserialize (generic) line 165: the loop goes on while i < size
DeserializeMore_UntilEof(i, size, b, pos) == i < size /\ pos <= Len(b)
DeserializeMore_OneShort(i, size, b, pos) == i + 1 < size
DeserializeMore(i, size, b, pos) == i < size

\* deserialize (generic) lines 165-168; an exception leaves the loop
RECURSIVE GenericReadLoop(_, _, _, _, _, _, _)
GenericReadLoop(W, m, p, b, pos, i, size) ==
    IF ~DeserializeMore(i, size, b, pos) THEN [W |-> W, ok |-> TRUE]
    ELSE LET s == ReadStringBinaryInto(W, p, b, pos) IN
         IF ~s.ok THEN [W |-> s.W, ok |-> FALSE]
         ELSE GenericReadLoop(Emplace(s.W, m, p, s.str).W, m, p, b, s.pos, i + 1, size)

\* deserialize (generic)
GenericDeserialize(W, m, p, b) ==
    LET c == ReadVarUInt(b, 1) IN
    IF ~c.ok THEN [W |-> W, ok |-> FALSE]
    ELSE GenericReadLoop(W, m, p, b, c.pos, 0, c.val)

DeserializeOp(W, m, p, b) ==
    IF m = "fixed" THEN FixedDeserialize(W, p, b) ELSE GenericDeserialize(W, m, p, b)

\* ---- the same functions called with arena = nullptr. No line of the source
\* tests the pointer; the first use of the Arena (serializeValueIntoArena,
\* arena->insert, readStringBinaryInto's allocation) dereferences null, which
\* ends the process. A call that never reaches such a use returns normally.

\* addImpl, arena = nullptr
GenericAddImplNoArena(W, plain, p, r) ==
    IF ~plain
    THEN \* getSerialization<false>: serializeValueIntoArena writes to the arena
         [W |-> W, ok |-> FALSE, crash |-> TRUE]
    ELSE LET e == Emplace(W, "plain", p, GetDataAt(r)) IN
         IF e.inserted
         THEN \* line 189: arena->insert, after the cell was emplaced
              [W |-> e.W, ok |-> FALSE, crash |-> TRUE]
         ELSE [W |-> e.W, ok |-> TRUE, crash |-> FALSE]

\* merge, arena = nullptr: the loop ends at the first element that is new
RECURSIVE GenericMergeNoArenaFrom(_, _, _, _, _)
GenericMergeNoArenaFrom(W, m, p, q, i) ==
    IF i > Len(W.set[q]) THEN [W |-> W, ok |-> TRUE, crash |-> FALSE]
    ELSE LET e == Emplace(W, m, p, W.set[q][i]) IN
         IF e.inserted THEN [W |-> e.W, ok |-> FALSE, crash |-> TRUE]
         ELSE GenericMergeNoArenaFrom(e.W, m, p, q, i + 1)

GenericMergeNoArena(W, m, p, q) == GenericMergeNoArenaFrom(W, m, p, q, MergeFirst(W, q))

\* deserialize, arena = nullptr: readVarUInt may throw; a count of 0 returns;
\* otherwise the first readStringBinaryInto reads a length (which may throw)
\* and allocates it from the arena
GenericDeserializeNoArena(W, m, p, b) ==
    LET c == ReadVarUInt(b, 1) IN
    IF ~c.ok THEN [W |-> W, ok |-> FALSE, crash |-> FALSE]
    ELSE IF ~DeserializeMore(0, c.val, b, c.pos) THEN [W |-> W, ok |-> TRUE, crash |-> FALSE]
    ELSE [W |-> W, ok |-> FALSE, crash |-> ReadVarUInt(b, c.pos).ok]

\* deserializeAndInsert: the value a stored key stands for
DeserializeAndInsert(W, m, cell) ==
    IF m = "fixed" THEN cell
    ELSE IF m = "plain" THEN BytesAt(W, cell)
    ELSE DecodeAt(W, cell)

\* insertResultInto: the values appended to the result column's data
ResultValues(W, m, p) ==
    [i \in 1..Len(W.set[p]) |-> DeserializeAndInsert(W, m, W.set[p][i])]

\* insertResultInto: the offset appended to the result column's offsets
ResultOffset_NoBase(offs, size) == size
ResultOffset(offs, size) == (IF Len(offs) = 0 THEN 0 ELSE offs[Len(offs)]) + size

Range(f) == {f[i] : i \in DOMAIN f}
Distinct(f) == \A i, j \in DOMAIN f : i # j => f[i] # f[j]

\* the set of values a place finalizes to
Content(W, m, p) == Range(ResultValues(W, m, p))

Now == World(set, arena)

\* ok: the call returned normally; crash: it dereferenced a null Arena *;
\* hasArena: the caller supplied an arena
\* log: the calls an add or a deserialize made on the Arena
NoOpA == [op |-> "init", p |-> 0, arg |-> 0, n |-> 0, ok |-> TRUE,
          crash |-> FALSE, hasArena |-> TRUE, log |-> <<>>]

AggIdle ==
    /\ mode = "fixed"
    /\ set = [p \in Places |-> <<>>]
    /\ arena = [p \in Places |-> <<>>]
    /\ seen = [p \in Places |-> {}]
    /\ buf = <<>>
    /\ bufOf = {}
    /\ offsets_to = <<>>
    /\ data_to = <<>>
    /\ lastA = NoOpA
    /\ twin = World([p \in Places |-> <<>>], [p \in Places |-> <<>>])

\* add(place, column, row_num, arena)
Add(p, r) ==
    LET W == AddOp(Now, mode, p, r) IN
    /\ set' = W.set
    /\ arena' = W.arena
    /\ seen' = [seen EXCEPT ![p] = @ \cup {Logical(mode, r)}]
    /\ lastA' = [NoOpA EXCEPT !.op = "add", !.p = p, !.n = Len(W.set[p]) - Len(set[p]),
                               !.log = W.log]
    /\ UNCHANGED <<mode, buf, bufOf, offsets_to, data_to>>

\* merge(place, rhs, arena), arena being the destination's
Merge(p, q) ==
    LET W == MergeOp(Now, mode, p, q) IN
    /\ p # q
    /\ set' = W.set
    /\ arena' = W.arena
    /\ seen' = [seen EXCEPT ![p] = @ \cup seen[q]]
    /\ lastA' = [NoOpA EXCEPT !.op = "merge", !.p = p, !.arg = q,
                               !.n = Len(W.set[p]) - Len(set[p])]
    /\ UNCHANGED <<mode, buf, bufOf, offsets_to, data_to>>


\* ------------------------------------------------------------ COWPtr heap
NoHandle == [kind |-> "none", obj |-> 0]
NoOp     == [op |-> "init", src |-> 0, dst |-> 0, obj |-> 0, orig |-> 0,
             cloned |-> FALSE]

FreeObjects == {o \in Objects : ~alive[o]}

\* operator new: the address of the next allocation (lowest free slot)
NewObject == CHOOSE o \in FreeObjects : \A p \in FreeObjects : o <= p

\* number of handles of a kind that reference object o
ImmCount(o) == Cardinality({h \in Handles : handle[h] = [kind |-> "imm", obj |-> o]})
MutCount(o) == Cardinality({h \in Handles : handle[h] = [kind |-> "mut", obj |-> o]})

\* intrusive_ptr_add_ref / intrusive_ptr_release on a reference-count map
AddRef_Forgotten(rc, o) == rc
AddRef(rc, o)  == [rc EXCEPT ![o] = @ + 1]
Release(rc, o) == IF o = 0 THEN rc ELSE [rc EXCEPT ![o] = @ - 1]

\* the object is deleted when release brings its count to zero
Reap(al, rc) == [o \in Objects |-> al[o] /\ rc[o] > 0]

\* payloads of the objects that survive (a freed slot reads as 0)
Keep(val, rc) == [o \in Objects |-> IF rc[o] > 0 THEN val[o] ELSE 0]

\* mutate(): use_count() > 1 selects clone(), otherwise assumeMutable()
ShouldClone_NeverForTwo(count) == count > 2
ShouldClone_Always(count) == count > 0
ShouldClone(count) == count > 1

\* create(args...): new Derived, owned by the returned MutablePtr
Create(h, v) ==
    /\ handle[h].kind = "none"
    /\ FreeObjects # {}
    /\ LET o == NewObject IN
        /\ alive' = [alive EXCEPT ![o] = TRUE]
        /\ value' = [value EXCEPT ![o] = v]
        /\ refcount' = [refcount EXCEPT ![o] = 1]
        /\ handle' = [handle EXCEPT ![h] = [kind |-> "mut", obj |-> o]]
        /\ last' = [NoOp EXCEPT !.op = "create"]

\* mutable_ptr(mutable_ptr &&): the source is left null
MoveMutable(src, dst) ==
    /\ handle[src].kind = "mut"
    /\ handle[dst].kind = "none"
    /\ handle' = [handle EXCEPT ![dst] = handle[src], ![src] = NoHandle]
    /\ last' = [NoOp EXCEPT !.op = "move"]
    /\ UNCHANGED heapVars

\* immutable_ptr(intrusive_ptr<U> &&), also as move-assignment to a Ptr that
\* already references an object, which is released
MoveToImmutable(src, dst) ==
    /\ handle[src].kind = "mut"
    /\ handle[dst].kind \in {"none", "imm"}
    /\ LET o == handle[src].obj
           rc == Release(refcount, handle[dst].obj) IN
        /\ refcount' = rc
        /\ alive' = Reap(alive, rc)
        /\ handle' = [handle EXCEPT ![dst] = [kind |-> "imm", obj |-> o],
                                    ![src] = NoHandle]
        /\ value' = Keep(value, rc)
        /\ last' = [NoOp EXCEPT !.op = "share"]

\* immutable_ptr(const intrusive_ptr<const U> &)
CopyImmutable(src, dst) ==
    /\ handle[src].kind = "imm"
    /\ handle[dst].kind = "none"
    /\ LET o == handle[src].obj IN
        /\ refcount' = AddRef(refcount, o)
        /\ handle' = [handle EXCEPT ![dst] = handle[src]]
        /\ last' = [NoOp EXCEPT !.op = "copy"]
    /\ UNCHANGED <<alive, value>>

\* x->mutate() into a new MutablePtr
Mutate(src, dst) ==
    /\ handle[src].kind = "imm"
    /\ handle[dst].kind = "none"
    /\ LET o == handle[src].obj IN
        IF ShouldClone(refcount[o])
        THEN \* derived()->clone(): new Derived(*derived()), count starts at 0
            /\ FreeObjects # {}
            /\ LET n == NewObject IN
                /\ alive' = [alive EXCEPT ![n] = TRUE]
                /\ value' = [value EXCEPT ![n] = value[o]]
                /\ refcount' = [refcount EXCEPT ![n] = 1]
                /\ handle' = [handle EXCEPT ![dst] = [kind |-> "mut", obj |-> n]]
                /\ last' = [op |-> "mutate", src |-> src, dst |-> dst, obj |-> n,
                            orig |-> o, cloned |-> TRUE]
        ELSE \* assumeMutable(): MutablePtr(const_cast<COWPtr*>(this)) adds a reference
            /\ refcount' = AddRef(refcount, o)
            /\ handle' = [handle EXCEPT ![dst] = [kind |-> "mut", obj |-> o]]
            /\ last' = [op |-> "mutate", src |-> src, dst |-> dst, obj |-> o,
                        orig |-> o, cloned |-> FALSE]
            /\ UNCHANGED <<alive, value>>

\* a non-const method called through a MutablePtr
Modify(h, v) ==
    /\ handle[h].kind = "mut"
    /\ v # value[handle[h].obj]
    /\ value' = [value EXCEPT ![handle[h].obj] = v]
    \* orig/cloned: h is the handle the preceding cloning mutate() returned
    /\ last' = [op |-> "modify", src |-> h, dst |-> 0, obj |-> handle[h].obj,
                orig |-> IF last.op = "mutate" /\ last.dst = h THEN last.orig ELSE 0,
                cloned |-> last.op = "mutate" /\ last.dst = h /\ last.cloned]
    /\ UNCHANGED <<refcount, alive, handle>>

\* ~intrusive_ptr
Drop(h) ==
    /\ handle[h].kind # "none"
    /\ LET rc == Release(refcount, handle[h].obj) IN
        /\ refcount' = rc
        /\ alive' = Reap(alive, rc)
        /\ value' = Keep(value, rc)
    /\ handle' = [handle EXCEPT ![h] = NoHandle]
    /\ last' = [NoOp EXCEPT !.op = "drop"]

HeapInit ==
    /\ refcount = [o \in Objects |-> 0]
    /\ alive = [o \in Objects |-> FALSE]
    /\ value = [o \in Objects |-> 0]

CowIdle ==
    /\ handle = [h \in Handles |-> NoHandle]
    /\ last = NoOp

RaceIdle ==
    /\ pc = [t \in Threads |-> "off"]
    /\ xptr = [t \in Threads |-> 0]
    /\ mptr = [t \in Threads |-> 0]
    /\ shared = [t \in Threads |-> FALSE]
    /\ wrote = [t \in Threads |-> 0]
    /\ rounds = [t \in Threads |-> 0]
    /\ inplace = {}
    /\ origin = 0

InitCow == HeapInit /\ CowIdle /\ RaceIdle /\ AggIdle

NextCow ==
    \/ \E h \in Handles, v \in Vals : Create(h, v) /\ UNCHANGED notCow
    \/ \E s, d \in Handles : MoveMutable(s, d) /\ UNCHANGED notCow
    \/ \E s, d \in Handles : s # d /\ MoveToImmutable(s, d) /\ UNCHANGED notCow
    \/ \E s, d \in Handles : CopyImmutable(s, d) /\ UNCHANGED notCow
    \/ \E s, d \in Handles : Mutate(s, d) /\ UNCHANGED notCow
    \/ \E h \in Handles, v \in Vals : Modify(h, v) /\ UNCHANGED notCow
    \/ \E h \in Handles : Drop(h) /\ UNCHANGED notCow

SpecCow == InitCow /\ [][NextCow]_vars

\* ------------------------------------------- two threads, one shared object
\* Each thread owns an immutable handle x to the same object and repeats
\*     MutablePtr m = x->mutate();  m->set(v);  x = std::move(m);

Other(t) == CHOOSE u \in Threads : u # t

\* use_count(): one atomic load of the counter, compared with 1
ReadCount(t) ==
    /\ pc[t] = "idle"
    /\ rounds[t] < MaxRounds
    /\ shared' = [shared EXCEPT ![t] = ShouldClone(refcount[xptr[t]])]
    /\ pc' = [pc EXCEPT ![t] = "checked"]
    /\ UNCHANGED <<heapVars, xptr, mptr, wrote, rounds, inplace, origin>>

\* clone(): the copy constructor starts reading *this
CloneBegin(t) ==
    /\ pc[t] = "checked" /\ shared[t]
    /\ pc' = [pc EXCEPT ![t] = "cloning"]
    /\ UNCHANGED <<heapVars, xptr, mptr, shared, wrote, rounds, inplace, origin>>

\* clone(): the copy is complete and owned by the returned MutablePtr
CloneEnd(t) ==
    /\ pc[t] = "cloning"
    /\ FreeObjects # {}
    /\ LET n == NewObject IN
        /\ alive' = [alive EXCEPT ![n] = TRUE]
        /\ value' = [value EXCEPT ![n] = value[xptr[t]]]
        /\ refcount' = [refcount EXCEPT ![n] = 1]
        /\ mptr' = [mptr EXCEPT ![t] = n]
    /\ pc' = [pc EXCEPT ![t] = "have"]
    /\ UNCHANGED <<xptr, shared, wrote, rounds, inplace, origin>>

\* assumeMutable(): a second pointer to the same object, one atomic increment
AssumeMutable(t) ==
    /\ pc[t] = "checked" /\ ~shared[t]
    /\ refcount' = AddRef(refcount, xptr[t])
    /\ mptr' = [mptr EXCEPT ![t] = xptr[t]]
    /\ inplace' = IF xptr[t] = origin THEN inplace \cup {t} ELSE inplace
    /\ pc' = [pc EXCEPT ![t] = "have"]
    /\ UNCHANGED <<alive, value, xptr, shared, wrote, rounds, origin>>

\* m->set(v): the store into the object begins ...
WriteBegin(t, v) ==
    /\ pc[t] = "have"
    /\ v # value[mptr[t]]
    /\ wrote' = [wrote EXCEPT ![t] = v]
    /\ pc' = [pc EXCEPT ![t] = "writing"]
    /\ UNCHANGED <<heapVars, xptr, mptr, shared, rounds, inplace, origin>>

\* ... and completes
WriteEnd(t) ==
    /\ pc[t] = "writing"
    /\ value' = [value EXCEPT ![mptr[t]] = wrote[t]]
    /\ pc' = [pc EXCEPT ![t] = "written"]
    /\ UNCHANGED <<refcount, alive, xptr, mptr, shared, wrote, rounds, inplace, origin>>

\* x = std::move(m): x takes m's object, the object x referenced is released
MoveAssign(t) ==
    /\ pc[t] = "written"
    /\ LET rc == Release(refcount, xptr[t]) IN
        /\ refcount' = rc
        /\ alive' = Reap(alive, rc)
        /\ value' = Keep(value, rc)
        /\ origin' = IF origin # 0 /\ rc[origin] = 0 THEN 0 ELSE origin
    /\ xptr' = [xptr EXCEPT ![t] = mptr[t]]
    /\ mptr' = [mptr EXCEPT ![t] = 0]
    /\ rounds' = [rounds EXCEPT ![t] = @ + 1]
    /\ pc' = [pc EXCEPT ![t] = "idle"]
    /\ UNCHANGED <<shared, wrote, inplace>>

\* Column::Ptr x = Column::create(v); Column::Ptr y = x; one handle per thread
InitRace ==
    /\ \E v \in Vals :
        /\ value = [o \in Objects |-> IF o = 1 THEN v ELSE 0]
    /\ refcount = [o \in Objects |-> IF o = 1 THEN 2 ELSE 0]
    /\ alive = [o \in Objects |-> o = 1]
    /\ CowIdle
    /\ pc = [t \in Threads |-> "idle"]
    /\ xptr = [t \in Threads |-> 1]
    /\ mptr = [t \in Threads |-> 0]
    /\ shared = [t \in Threads |-> FALSE]
    /\ wrote = [t \in Threads |-> 0]
    /\ rounds = [t \in Threads |-> 0]
    /\ inplace = {}
    /\ origin = 1
    /\ AggIdle

NextRace ==
    \/ \E t \in Threads : ReadCount(t) /\ UNCHANGED notRace
    \/ \E t \in Threads : CloneBegin(t) /\ UNCHANGED notRace
    \/ \E t \in Threads : CloneEnd(t) /\ UNCHANGED notRace
    \/ \E t \in Threads : AssumeMutable(t) /\ UNCHANGED notRace
    \/ \E t \in Threads, v \in Vals : WriteBegin(t, v) /\ UNCHANGED notRace
    \/ \E t \in Threads : WriteEnd(t) /\ UNCHANGED notRace
    \/ \E t \in Threads : MoveAssign(t) /\ UNCHANGED notRace

SpecRace == InitRace /\ [][NextRace]_vars

\* ------------------------------------------------------ claims on SpecRace

\* thread t is reading object o (copy constructor) / storing into object o
Reading(t, o) == pc[t] = "cloning" /\ xptr[t] = o
Writing(t, o) == pc[t] = "writing" /\ mptr[t] = o

DataRace ==
    \E t \in Threads, o \in Objects :
        Writing(t, o) /\ (Writing(Other(t), o) \/ Reading(Other(t), o))

\* C7: two threads, each with its own immutable handle to one object, each
\* running mutate(), a modification and the move-assignment back: in every
\* interleaving no store overlaps another access to the same object, a store
\* by one thread never changes what the other thread's handle reads, the two
\* never both take the original object in place, and a thread that saw the
\* object shared works on a fresh clone.
C7_ConcurrentMutateSafe ==
    [][ /\ ~DataRace'
        /\ Cardinality(inplace') <= 1
        /\ \A t \in Threads :
            /\ (pc'[t] = "checked" /\ pc[t] = "idle") =>
                   (shared'[t] <=> refcount[xptr[t]] > 1)
            /\ (pc'[t] \in {"have", "writing", "written"} /\ shared'[t]) =>
                   /\ mptr'[t] \notin {xptr'[1], xptr'[2], mptr'[Other(t)]}
                   /\ alive'[mptr'[t]]
            /\ pc'[t] = pc[t] =>
                   /\ xptr'[t] = xptr[t]
                   /\ value'[xptr'[t]] = value[xptr[t]]
                   /\ alive'[xptr'[t]]
      ]_vars

C7_Witness ==
    /\ pc[1] = "writing" /\ pc[2] = "writing"
    /\ \E t \in Threads :
        /\ t \in inplace /\ mptr[t] = origin
        /\ rounds[Other(t)] >= 1 /\ xptr[Other(t)] # origin
        /\ value[xptr[Other(t)]] # value[origin]

\* ------------------------------------------ groupUniqArray specifications
\* insertResultInto(place, to): one offset and the set's values are appended
Finalize(p) ==
    /\ Len(offsets_to) < MaxResults
    /\ offsets_to' = Append(offsets_to, ResultOffset(offsets_to, Len(set[p])))
    /\ data_to' = data_to \o ResultValues(Now, mode, p)
    \* arg: the call follows an add of a value the state already had
    /\ lastA' = [NoOpA EXCEPT !.op = "finalize", !.p = p, !.n = Len(set[p]),
                               !.arg = IF lastA.op = "add" /\ lastA.n = 0 THEN 1 ELSE 0]
    /\ UNCHANGED <<mode, set, arena, seen, buf, bufOf>>

\* serialize(place, buf) into an empty WriteBuffer
Serialize(p) ==
    /\ buf' = SerializeOp(Now, mode, p)
    /\ bufOf' = Content(Now, mode, p)
    /\ lastA' = [NoOpA EXCEPT !.op = "serialize", !.p = p, !.n = Len(set[p])]
    /\ UNCHANGED <<mode, set, arena, seen, offsets_to, data_to>>

\* deserialize(place, buf, arena) from a ReadBuffer over the first len bytes of
\* buf: all of them, or a truncated copy
Deserialize(p, len) ==
    LET d == DeserializeOp(Now, mode, p, SubSeq(buf, 1, len)) IN
    /\ buf # <<>>
    /\ len \in 0..Len(buf)
    /\ Len(arena[p]) <= MaxArena
    /\ set' = d.W.set
    /\ arena' = d.W.arena
    /\ seen' = [seen EXCEPT ![p] = IF d.ok THEN @ \cup bufOf ELSE @]
    \* arg: the input was truncated; n: the cells the place had before
    /\ lastA' = [NoOpA EXCEPT !.op = "deserialize", !.p = p,
                               !.arg = IF len < Len(buf) THEN 1 ELSE 0,
                               !.n = Len(set[p]), !.ok = d.ok, !.log = d.W.log]
    /\ UNCHANGED <<mode, buf, bufOf, offsets_to, data_to>>

\* the place's state and its arena are destroyed and created anew
Destroy(p) ==
    /\ set[p] # <<>> \/ arena[p] # <<>>
    /\ set' = [set EXCEPT ![p] = <<>>]
    /\ arena' = [arena EXCEPT ![p] = <<>>]
    /\ seen' = [seen EXCEPT ![p] = {}]
    /\ lastA' = [NoOpA EXCEPT !.op = "destroy", !.p = p]
    /\ UNCHANGED <<mode, buf, bufOf, offsets_to, data_to>>

\* add(place, column, row_num, nullptr) of the generic function
AddNoArena(p, r) ==
    LET a == GenericAddImplNoArena(Now, mode = "plain", p, r) IN
    /\ mode # "fixed"
    /\ set' = a.W.set
    /\ arena' = a.W.arena
    /\ seen' = [seen EXCEPT ![p] = IF a.ok THEN @ \cup {Logical(mode, r)} ELSE @]
    /\ lastA' = [NoOpA EXCEPT !.op = "add", !.p = p, !.n = Len(a.W.set[p]) - Len(set[p]),
                               !.ok = a.ok, !.crash = a.crash, !.hasArena = FALSE]
    /\ UNCHANGED <<mode, buf, bufOf, offsets_to, data_to>>

\* merge(place, rhs, nullptr) of the generic function
MergeNoArena(p, q) ==
    LET a == GenericMergeNoArena(Now, mode, p, q) IN
    /\ mode # "fixed"
    /\ p # q
    /\ set' = a.W.set
    /\ arena' = a.W.arena
    /\ seen' = [seen EXCEPT ![p] = IF a.ok THEN @ \cup seen[q] ELSE @]
    /\ lastA' = [NoOpA EXCEPT !.op = "merge", !.p = p, !.arg = q,
                               !.n = Len(a.W.set[p]) - Len(set[p]),
                               !.ok = a.ok, !.crash = a.crash, !.hasArena = FALSE]
    /\ UNCHANGED <<mode, buf, bufOf, offsets_to, data_to>>

\* deserialize(place, buf, nullptr) of the generic function
DeserializeNoArena(p, len) ==
    LET a == GenericDeserializeNoArena(Now, mode, p, SubSeq(buf, 1, len)) IN
    /\ mode # "fixed"
    /\ buf # <<>>
    /\ len \in 0..Len(buf)
    /\ set' = a.W.set
    /\ arena' = a.W.arena
    /\ lastA' = [NoOpA EXCEPT !.op = "deserialize", !.p = p,
                               !.arg = IF len < Len(buf) THEN 1 ELSE 0,
                               !.n = Len(set[p]),
                               !.ok = a.ok, !.crash = a.crash, !.hasArena = FALSE]
    /\ UNCHANGED <<mode, seen, buf, bufOf, offsets_to, data_to>>

InitAgg ==
    /\ HeapInit /\ CowIdle /\ RaceIdle
    /\ mode \in Modes
    /\ set = [p \in Places |-> <<>>]
    /\ arena = [p \in Places |-> <<>>]
    /\ seen = [p \in Places |-> {}]
    /\ buf = <<>>
    /\ bufOf = {}
    /\ offsets_to = <<>>
    /\ data_to = <<>>
    /\ lastA = NoOpA
    /\ twin = World([p \in Places |-> <<>>], [p \in Places |-> <<>>])

NextAgg ==
    \/ \E p \in Places, r \in MergeRows : Add(p, r) /\ UNCHANGED notAgg
    \/ \E p, q \in Places : Merge(p, q) /\ UNCHANGED notAgg

SpecAgg == InitAgg /\ [][NextAgg]_vars

\* one aggregate state fed every row of the column and finalized
NextOut ==
    \/ \E r \in Rows : Add(1, r) /\ UNCHANGED notAgg
    \/ Finalize(1) /\ UNCHANGED notAgg

SpecOut == InitAgg /\ [][NextOut]_vars

\* place 1 is built by add and merge and serialized; place 2 is deserialized
\* into, whole or truncated, and destroyed
NextSer ==
    \/ \E r \in Rows : Add(1, r) /\ UNCHANGED notAgg
    \/ Merge(1, 2) /\ UNCHANGED notAgg
    \/ Serialize(1) /\ UNCHANGED notAgg
    \/ \E len \in 0..Len(buf) : Deserialize(2, len) /\ UNCHANGED notAgg
    \/ Destroy(2) /\ UNCHANGED notAgg

SpecSer == InitAgg /\ [][NextSer]_vars

\* a serialized state as another server may send it: the count and the
\* elements, which need not be distinct
ElemOf(m, r) ==
    IF m = "fixed" THEN WriteIntBinary(ColNum[r])
    ELSE WriteStringBinary(IF m = "plain" THEN ColStr[r] ELSE SerializedValue(r))

RECURSIVE ElemsOf(_, _, _)
ElemsOf(m, rs, i) ==
    IF i > Len(rs) THEN <<>> ELSE ElemOf(m, rs[i]) \o ElemsOf(m, rs, i + 1)

\* lists of up to MaxList values of the column (rows 1 and 3 hold the same)
RowLists == UNION {[1..n -> Rows \ {3}] : n \in 0..MaxList}

\* the ReadBuffer is filled with the serialized state of the rows rs
Receive(rs) ==
    /\ buf' = WriteVarUInt(Len(rs)) \o ElemsOf(mode, rs, 1)
    /\ bufOf' = {Logical(mode, rs[i]) : i \in 1..Len(rs)}
    /\ lastA' = [NoOpA EXCEPT !.op = "receive", !.n = Len(rs)]
    /\ UNCHANGED <<mode, set, arena, seen, offsets_to, data_to>>

\* a newly created place 2 is given a received state to deserialize, whole or
\* short of the last byte, once or again
NextDes ==
    \/ \E rs \in RowLists :
          set[2] = <<>> /\ arena[2] = <<>> /\ Receive(rs) /\ UNCHANGED notAgg
    \/ \E len \in {Len(buf) - 1, Len(buf)} : Deserialize(2, len) /\ UNCHANGED notAgg
    \/ Destroy(2) /\ UNCHANGED notAgg

SpecDes == InitAgg /\ [][NextDes]_vars

\* two places through their life: both built by add and merge, place 1
\* serialized, place 2 also built by deserialize (of the whole input or of
\* the input short of its last byte), destroyed and built again
LifePlaces == {1, 2}

NextLife ==
    \/ \E p \in LifePlaces, r \in MergeRows : Add(p, r) /\ UNCHANGED notAgg
    \/ \E p, q \in LifePlaces : Merge(p, q) /\ UNCHANGED notAgg
    \/ Serialize(1) /\ UNCHANGED notAgg
    \/ \E len \in {Len(buf) - 1, Len(buf)} : Deserialize(2, len) /\ UNCHANGED notAgg
    \/ Destroy(2) /\ UNCHANGED notAgg

SpecLife == InitAgg /\ [][NextLife]_vars

\* the generic function given an arena or none; nothing runs after a crash
InitNoArena == InitAgg /\ mode # "fixed"

\* the process has not crashed
Running == ~lastA.crash

NextNoArena ==
    \/ \E p \in {1, 2}, r \in MergeRows : Running /\ Add(p, r) /\ UNCHANGED notAgg
    \/ Running /\ Serialize(1) /\ UNCHANGED notAgg
    \/ \E p \in {1, 2}, r \in MergeRows : Running /\ AddNoArena(p, r) /\ UNCHANGED notAgg
    \/ \E p, q \in {1, 2} : Running /\ MergeNoArena(p, q) /\ UNCHANGED notAgg
    \/ \E len \in 0..Len(buf) : Running /\ DeserializeNoArena(2, len) /\ UNCHANGED notAgg

SpecNoArena == InitNoArena /\ [][NextNoArena]_vars

\* AggreagteFunctionGroupUniqArrayGeneric<true> on set/arena and
\* AggreagteFunctionGroupUniqArrayGeneric<false> on twin, given the same calls
AddBoth(p, r) ==
    /\ Add(p, r)
    /\ twin' = LET W == AddOp(twin, "nonplain", p, r) IN World(W.set, W.arena)

MergeBoth(p, q) ==
    /\ Merge(p, q)
    /\ twin' = LET W == MergeOp(twin, "nonplain", p, q) IN World(W.set, W.arena)

InitPair == InitAgg /\ mode = "plain"

NextPair ==
    \/ \E p \in {1, 2}, r \in Rows : AddBoth(p, r) /\ UNCHANGED notPair
    \/ \E p, q \in {1, 2} : MergeBoth(p, q) /\ UNCHANGED notPair

SpecPair == InitPair /\ [][NextPair]_vars

\* ------------------------------------------------------- claims on SpecCow

\* C1: no object is modified through a mutable handle while more than one
\* immutable handle references it (create, move into immutable, copy,
\* mutate(), drop; assumeMutable never called by the user).
C1_NoModifyWhileShared ==
    last.op = "modify" => ImmCount(last.obj) <= 1

\* C5: mutate() on an object with refcount >= 2 returns a handle to a different,
\* freshly allocated object holding an equal payload; the original object, its
\* count and every other handle are untouched, also when the returned handle is
\* then used to modify the clone.
C5_SharedMutateClones ==
    [][ /\ (last'.op = "mutate" /\ refcount[handle[last'.src].obj] >= 2) =>
            LET o == handle[last'.src].obj
                n == handle'[last'.dst].obj IN
              /\ n # o
              /\ ~alive[n] /\ alive'[n]
              /\ handle'[last'.dst].kind = "mut"
              /\ refcount'[n] = 1
              /\ value'[n] = value[o]
              /\ value'[o] = value[o]
              /\ refcount'[o] = refcount[o]
              /\ \A h \in Handles \ {last'.dst} : handle'[h] = handle[h]
        /\ (last.op = "mutate" /\ last.cloned /\ last'.op = "modify"
                /\ last'.src = last.dst) =>
              /\ last'.obj # last.orig
              /\ value'[last.orig] = value[last.orig]
              /\ refcount' = refcount
              /\ handle' = handle
      ]_vars

C5_Witness ==
    /\ last.op = "modify" /\ last.cloned
    /\ last.obj # last.orig
    /\ value[last.orig] # value[last.obj]
    /\ ImmCount(last.orig) >= 2

\* C6: mutate() on an object with refcount exactly 1 makes no clone: the
\* returned mutable handle references the object the call was made on.
C6_UniqueMutateInPlace ==
    [][ (last'.op = "mutate" /\ refcount[handle[last'.src].obj] = 1) =>
            /\ handle'[last'.dst] = [kind |-> "mut", obj |-> handle[last'.src].obj]
            /\ alive' = alive
            /\ value' = value
      ]_vars

C6_Witness ==
    /\ last.op = "mutate" /\ ~last.cloned
    /\ handle[last.dst] = [kind |-> "mut", obj |-> handle[last.src].obj]
    /\ FreeObjects # {}

\* C9: a mutable handle is the only handle of its object: whenever a mutable
\* handle references an object, no other handle references that object.
C9_MutableIsSoleOwner ==
    \A h \in Handles : handle[h].kind = "mut" =>
        \A g \in Handles \ {h} : handle[g].obj # handle[h].obj

\* ---------------------------------------------- claims on groupUniqArray

\* the entry the last insertResultInto call appended to the result column
LastEntry ==
    LET n == Len(offsets_to)
        from == IF n <= 1 THEN 0 ELSE offsets_to[n - 1] IN
    SubSeq(data_to, from + 1, offsets_to[n])

\* C2: finalize of a state built by add alone yields exactly the distinct
\* values of the rows added: each once, none twice, nothing else; for the
\* fixed-width, the plain and the non-plain aggregate function.
C2_FinalizeDistinctValues ==
    lastA.op = "finalize" =>
        /\ Distinct(LastEntry)
        /\ Range(LastEntry) = seen[lastA.p]
        /\ Len(LastEntry) = Cardinality(seen[lastA.p])

C2_Witness ==
    /\ lastA.op = "finalize" /\ mode = "nonplain"
    /\ lastA.arg = 1
    /\ Range(LastEntry) = AllLogical(mode)
    /\ Len(LastEntry) = 3

\* C3: merge(A, B) leaves A finalizing to the union of what A and B finalized
\* to before; merge(A, B) and merge(B, A) give the same content, and so do
\* both groupings of a chain of three states.
C3_MergeIsUnion ==
    [][ lastA'.op = "merge" =>
          LET p == lastA'.p
              q == lastA'.arg IN
            /\ Content(Now', mode, p) = Content(Now, mode, p) \cup Content(Now, mode, q)
            /\ Distinct(ResultValues(Now', mode, p))
            /\ \A BA \in {MergeOp(Now, mode, q, p)} :
                   Content(Now', mode, p) = Content(BA, mode, q)
            /\ \A r \in Places \ {p, q} :
                 \A AB \in {MergeOp(Now, mode, p, q)}, BC \in {MergeOp(Now, mode, q, r)} :
                   \A AB_C \in {MergeOp(AB, mode, p, r)}, A_BC \in {MergeOp(BC, mode, p, q)} :
                       Content(AB_C, mode, p) = Content(A_BC, mode, p)
      ]_vars

C3_Witness ==
    /\ lastA.op = "merge" /\ lastA.n = 1
    /\ Len(set[lastA.arg]) = 2
    /\ Content(Now, mode, lastA.p) = AllLogical(mode) \ {Logical(mode, 4)}
    /\ mode = "plain"
    /\ \E r \in Places \ {lastA.p, lastA.arg} : Len(set[r]) = 1

\* the bytes the keys of a place take
RECURSIVE KeyBytes(_, _)
KeyBytes(cells, i) == IF i = 0 THEN 0 ELSE cells[i].size + KeyBytes(cells, i - 1)

\* C8: after any sequence of M add calls with N distinct values the arena of a
\* generic state holds exactly the bytes of the N keys kept: the bytes used are
\* the sum of the keys' lengths, the duplicates' bytes having been given back.
C8_ArenaHoldsKeptKeys ==
    mode # "fixed" =>
        /\ Len(set[1]) = Cardinality(seen[1])
        /\ Len(arena[1]) = KeyBytes(set[1], Len(set[1]))

C8_Witness ==
    /\ mode = "nonplain"
    /\ lastA.op = "add" /\ lastA.n = 0
    /\ Len(set[1]) = 3
    /\ Len(arena[1]) = KeyBytes(set[1], 3)
    /\ Len(arena[1]) > 0

\* C4: deserializing the bytes serialize produced into a fresh empty state
\* succeeds and gives a state finalizing to the same distinct values as the
\* original (fixed-width and generic); an empty state serializes to the
\* count 0 alone.
C4_SerializeRoundTrip ==
    /\ (lastA.op = "serialize" /\ lastA.n = 0) => buf = <<0>>
    /\ (lastA.op = "deserialize" /\ lastA.arg = 0 /\ lastA.n = 0) =>
           /\ lastA.ok
           /\ Content(Now, mode, lastA.p) = bufOf
           /\ Distinct(ResultValues(Now, mode, lastA.p))

C4_Witness ==
    /\ lastA.op = "deserialize" /\ lastA.arg = 0 /\ lastA.n = 0 /\ lastA.ok
    /\ mode = "nonplain"
    /\ bufOf = AllLogical(mode)
    /\ Content(Now, mode, lastA.p) = bufOf
    /\ Len(set[lastA.p]) = 3

\* C10: deserialize of a truncated serialized state (a cut count, or fewer
\* elements or bytes than the count announces) ends in a decoding error; it
\* never returns successfully.
C10_TruncatedInputFails ==
    (lastA.op = "deserialize" /\ lastA.arg = 1) => ~lastA.ok

C10_Witness ==
    /\ lastA.op = "deserialize" /\ lastA.arg = 1 /\ ~lastA.ok
    /\ mode = "nonplain"
    /\ lastA.n = 0 /\ Len(set[lastA.p]) = 2
    /\ Cardinality(bufOf) = 3

\* C11: the generic function asked to add, merge or deserialize with no arena
\* signals a configuration error (the call throws, the process goes on) and
\* leaves the state as it was.
C11_NoArenaIsConfigurationError ==
    [][ ~lastA'.hasArena =>
            /\ ~lastA'.ok /\ ~lastA'.crash
            /\ set' = set /\ arena' = arena
      ]_vars

\* C12: the plain and the non-plain generic function, given the same add and
\* merge calls on the same values, hold the same number of entries in every
\* place and finalize to the same set of values.
C12_PlainAndNonPlainAgree ==
    \A p \in Places :
        /\ Len(set[p]) = Len(twin.set[p])
        /\ Content(Now, "plain", p) = Content(twin, "nonplain", p)

\* after a merge that brought something new, three values, keys of other bytes
C12_Witness ==
    /\ lastA.op = "merge" /\ lastA.n >= 1
    /\ Len(set[lastA.p]) = 3 /\ Len(twin.set[lastA.p]) = 3
    /\ Content(twin, "nonplain", lastA.p) = AllLogical("plain")
    /\ \A i \in 1..3 :
           BytesAt(Now, set[lastA.p][i]) # BytesAt(twin, twin.set[lastA.p][i])

\* the handles among hs, of either kind, that reference object o
HandleCount(hs, o) == Cardinality({h \in Handles : hs[h].obj = o})

\* C13: under create, move, copy, mutate() and drop every object's reference
\* count is the number of live handles referencing it; the object exists
\* exactly while that count is above zero, and ceases to exist in the step
\* that takes its last handle away; an object not referenced by any immutable
\* handle gets its first one only by a move from a mutable handle.
C13_CountIsHandles ==
    [][ \A o \in Objects :
          /\ refcount'[o] = HandleCount(handle', o)
          /\ alive'[o] <=> refcount'[o] > 0
          /\ (alive[o] /\ ~alive'[o]) => HandleCount(handle, o) = 1
          /\ ( /\ \E h \in Handles : handle'[h].obj = o /\ handle'[h].kind = "imm"
               /\ \A h \in Handles : handle[h].obj = o => handle[h].kind # "imm" ) =>
                 /\ last'.op = "share"
                 /\ \E h \in Handles :
                        handle[h] = [kind |-> "mut", obj |-> o] /\ handle'[h] = NoHandle
      ]_vars

C13_Witness ==
    /\ last.op = "drop"
    /\ \E o \in Objects :
          /\ refcount[o] = 2 /\ MutCount(o) = 1 /\ ImmCount(o) = 1
          /\ \E n \in Objects : n < o /\ ~alive[n]

\* the key lies within the bytes in use of the Arena of place p
InArena(cell, p) ==
    /\ cell.seg = p
    /\ cell.off >= 0
    /\ cell.off + cell.size <= Len(arena[p])

\* C14: after any add, merge and deserialize of a generic function, every key
\* of a place's set references bytes of that place's own Arena: never the
\* column's buffer, never another place's Arena.
C14_KeysInOwnArena ==
    mode # "fixed" =>
        \A p \in Places : \A i \in 1..Len(set[p]) : InArena(set[p][i], p)

\* a place built by a plain deserialize has got another key by a merge
C14_Witness ==
    /\ mode = "plain"
    /\ lastA.op = "merge" /\ lastA.n = 1 /\ lastA.p = 2
    /\ Len(set[2]) = 2
    /\ \A i \in 1..2 : InArena(set[2][i], 2)
    /\ Cardinality(bufOf) = 1 /\ bufOf = {DeserializeAndInsert(Now, mode, set[2][1])}

\* C15: a non-plain add first writes the candidate into the arena. If the
\* value was already in the state, the one further arena call is a rollback of
\* exactly the candidate's size, made right after that write, and arena and
\* set are as before the add. If the value is new, no rollback is made and the
\* candidate's bytes, at the end of the arena, are the new cell's key.
C15_RollbackOnlyForDuplicate ==
    [][ (mode = "nonplain" /\ lastA'.op = "add") =>
          LET p == lastA'.p
              log == lastA'.log IN
            /\ Len(log) >= 1 /\ log[1].op = "insert"
            /\ \A i \in 1..Len(log) : log[i].op = "rollback" =>
                   /\ i > 1 /\ log[i - 1] = ArenaCall("insert", log[i].size)
                   /\ seen'[p] = seen[p]
            /\ IF seen'[p] = seen[p]
               THEN /\ log = <<log[1], ArenaCall("rollback", log[1].size)>>
                    /\ arena' = arena /\ set' = set
               ELSE /\ Len(log) = 1
                    /\ Len(arena'[p]) = Len(arena[p]) + log[1].size
                    /\ SubSeq(arena'[p], 1, Len(arena[p])) = arena[p]
                    /\ set'[p] = Append(set[p], Ref(p, Len(arena[p]), log[1].size))
                    /\ DecodeAt(Now', set'[p][Len(set'[p])]) \in seen'[p] \ seen[p]
      ]_vars

\* a duplicate add was rolled back after another value had been kept
C15_Witness ==
    /\ mode = "nonplain" /\ lastA.op = "add"
    /\ Len(lastA.log) = 2 /\ lastA.log[2] = ArenaCall("rollback", 3)
    /\ Len(set[1]) = 3

\* C16: a plain add of a value the state already has makes no arena call and
\* leaves arena and set as they were. A plain add of a new value makes exactly
\* one arena insert, of the value's bytes, and the new cell's key is that copy:
\* of the value's length, holding the value's bytes.
C16_PlainAddFrame ==
    [][ (mode = "plain" /\ lastA'.op = "add") =>
          LET p == lastA'.p
              log == lastA'.log IN
            IF seen'[p] = seen[p]
            THEN log = <<>> /\ arena' = arena /\ set' = set
            ELSE \E v \in seen'[p] \ seen[p] :
                   /\ log = <<ArenaCall("insert", Len(v))>>
                   /\ arena'[p] = arena[p] \o v
                   /\ set'[p] = Append(set[p], Ref(p, Len(arena[p]), Len(v)))
                   /\ BytesAt(Now', set'[p][Len(set'[p])]) = v
                   /\ \A q \in Places \ {p} : arena'[q] = arena[q] /\ set'[q] = set[q]
      ]_vars

\* a new two-byte value was copied behind another key; a repeat then changed nothing
C16_Witness ==
    /\ mode = "plain" /\ lastA.op = "add" /\ lastA.n = 0 /\ lastA.log = <<>>
    /\ Len(set[1]) = 3
    /\ \E i \in 2..3 : set[1][i].size = 2 /\ BytesAt(Now, set[1][i]) = <<2, 3>>

\* C17: every insertResultInto call appends one offset, the previous last
\* offset (0 if there is none) plus the size of the set, and as many values as
\* the set has, behind the offsets and values already there; hence the offsets
\* never decrease and the last offset is the number of values.
C17_FinalizeOffsets ==
    [][ lastA'.op = "finalize" =>
          LET size == Len(set[lastA'.p])
              n == Len(offsets_to)
              old == Len(data_to) IN
            /\ Len(offsets_to') = n + 1
            /\ SubSeq(offsets_to', 1, n) = offsets_to
            /\ offsets_to'[n + 1] = (IF n = 0 THEN 0 ELSE offsets_to[n]) + size
            /\ Len(data_to') = old + size
            /\ SubSeq(data_to', 1, old) = data_to
            /\ \A i \in 1..n : offsets_to'[i] <= offsets_to'[i + 1]
            /\ offsets_to'[n + 1] = Len(data_to')
      ]_vars

\* a second entry appended behind a first one that is not empty
C17_Witness ==
    /\ lastA.op = "finalize"
    /\ Len(offsets_to) = 2
    /\ offsets_to[1] >= 1 /\ offsets_to[2] > offsets_to[1]
    /\ Len(data_to) = offsets_to[2]

\* the keys of a place, as byte strings
KeyStrings(W, p) == {BytesAt(W, W.set[p][i]) : i \in 1..Len(W.set[p])}

\* C18: no add, merge or deserialize step (failed ones included) takes an
\* entry from a generic state: the keys it had, as byte strings, are among
\* the keys it has afterwards, and it has at least as many cells.
C18_NeverLosesEntry ==
    [][ (mode # "fixed" /\ lastA'.op \in {"add", "merge", "deserialize"}) =>
          \A p \in Places :
            /\ KeyStrings(Now, p) \subseteq KeyStrings(Now', p)
            /\ Len(set'[p]) >= Len(set[p])
      ]_vars

\* a deserialize into a state that had a key brought it another one
C18_Witness ==
    /\ mode = "nonplain"
    /\ lastA.op = "deserialize" /\ lastA.n = 1
    /\ Len(set[lastA.p]) = 2
    /\ Len(lastA.log) = 2

\* C19: merge(state, other) changes nothing but state's set and state's
\* arena: other keeps its cells, with the same key pointers and lengths, and
\* its arena, and so does every further place; for the fixed-width and the
\* generic merge.
C19_MergeOnlyReadsSource ==
    [][ lastA'.op = "merge" =>
          \A r \in Places \ {lastA'.p} : set'[r] = set[r] /\ arena'[r] = arena[r]
      ]_vars

\* a generic merge that copied two keys of the source
C19_Witness ==
    /\ mode = "nonplain"
    /\ lastA.op = "merge" /\ lastA.n = 2
    /\ Len(set[lastA.arg]) = 2 /\ Len(arena[lastA.arg]) = 7
    /\ Len(arena[lastA.p]) = 7

\* C20: deserialize of a well-formed input whose elements repeat values reads
\* the announced number of elements and succeeds; a state that was empty then
\* holds each distinct value of the list once, as many cells as distinct
\* values. The generic function copies every announced string into the
\* arena, repeats included: one arena insert per element, the arena growing
\* by all the strings' bytes.
C20_DeserializeCollapsesRepeats ==
    [][ (lastA'.op = "deserialize" /\ lastA'.arg = 0) =>
          LET p == lastA'.p
              count == buf[1] IN
            /\ lastA'.ok
            /\ lastA'.n = 0 =>
                   /\ Content(Now', mode, p) = bufOf
                   /\ Distinct(ResultValues(Now', mode, p))
                   /\ Len(set'[p]) = Cardinality(bufOf)
            /\ mode # "fixed" =>
                   /\ Len(lastA'.log) = count
                   /\ \A i \in 1..count : lastA'.log[i].op = "insert"
                   /\ Len(arena'[p]) = Len(arena[p]) + (Len(buf) - 1 - count)
      ]_vars

\* three elements, two of them equal: two cells, three copies
C20_Witness ==
    /\ mode = "nonplain"
    /\ lastA.op = "deserialize" /\ lastA.arg = 0 /\ lastA.n = 0 /\ lastA.ok
    /\ buf[1] = 3 /\ Cardinality(bufOf) = 2
    /\ Len(set[lastA.p]) = 2
    /\ Len(lastA.log) = 3
    /\ Len(arena[lastA.p]) > KeyBytes(set[lastA.p], 2)

====
